---- MODULE Spec2Model ----
\* Model of scripts/sync-cargo-version.js: copy the version of package.json
\* into src-tauri/Cargo.toml (smol-toml parse / stringify) and fold the
\* rewritten file into the HEAD commit (git add, git commit --amend).
EXTENDS Integers, Sequences, FiniteSets, TLC

\* Number of consecutive invocations of the script that are explored.
MaxRuns == 2
\* Largest number of commits in the history before the first invocation.
MaxCommits == 2

------------------------------------------------------------------------
\* JavaScript values that occur as field values.

Undefined == [t |-> "undefined", s |-> ""]
Null == [t |-> "null", s |-> ""]
Str(x) == [t |-> "string", s |-> x]
Num(x) == [t |-> "number", s |-> x]
Arr(x) == [t |-> "array", s |-> x]

\* A non-empty string, what the specification calls a valid version.
ValidVersion(v) == v.t = "string" /\ v.s # ""

------------------------------------------------------------------------
\* TOML text: a sequence of lines.

Comment == [k |-> "comment", key |-> "", val |-> Undefined]
Junk == [k |-> "junk", key |-> "", val |-> Undefined]
Header(n) == [k |-> "header", key |-> n, val |-> Undefined]
KV(n, v) == [k |-> "kv", key |-> n, val |-> v]
\* The content of a path that does not exist.
NoFile == << [k |-> "nofile", key |-> "", val |-> Undefined] >>

\* The parsed document: top-level key/value pairs followed by the tables,
\* each in insertion order (the key order of the JavaScript object).
EmptyDoc == [top |-> << >>, tabs |-> << >>]

Keys(ents) == {ents[i].key : i \in 1..Len(ents)}
TabNames(doc) == {doc.tabs[i].name : i \in 1..Len(doc.tabs)}
TabIndex(doc, n) == CHOOSE i \in 1..Len(doc.tabs) : doc.tabs[i].name = n
KeyIndex(ents, n) == CHOOSE i \in 1..Len(ents) : ents[i].key = n

\* parse of smol-toml: comments are dropped, a malformed line, a key
\* defined twice or a table defined twice is an error.
RECURSIVE ParseFrom(_, _, _, _)
ParseFrom(text, i, doc, cur) ==
  IF i > Len(text) THEN [ok |-> TRUE, doc |-> doc]
  ELSE LET l == text[i] IN
    CASE l.k = "comment" -> ParseFrom(text, i + 1, doc, cur)
      [] l.k = "header" ->
           IF l.key \in TabNames(doc) \/ l.key \in Keys(doc.top)
           THEN [ok |-> FALSE, doc |-> EmptyDoc]
           ELSE ParseFrom(text, i + 1,
                  [doc EXCEPT !.tabs = Append(@, [name |-> l.key, ents |-> << >>])],
                  Len(doc.tabs) + 1)
      [] l.k = "kv" ->
           IF cur = 0
           THEN IF l.key \in Keys(doc.top) \/ l.key \in TabNames(doc)
                THEN [ok |-> FALSE, doc |-> EmptyDoc]
                ELSE ParseFrom(text, i + 1,
                       [doc EXCEPT !.top = Append(@, [key |-> l.key, val |-> l.val])],
                       cur)
           ELSE IF l.key \in Keys(doc.tabs[cur].ents)
                THEN [ok |-> FALSE, doc |-> EmptyDoc]
                ELSE ParseFrom(text, i + 1,
                       [doc EXCEPT !.tabs[cur].ents = Append(@, [key |-> l.key, val |-> l.val])],
                       cur)
      [] OTHER -> [ok |-> FALSE, doc |-> EmptyDoc]

Parse(text) == ParseFrom(text, 1, EmptyDoc, 0)

\* stringify of smol-toml for one table body: a key whose value is null or
\* undefined is skipped, every other key becomes a "key = value" line.
RECURSIVE StringifyEnts(_)
StringifyEnts(ents) ==
  IF ents = << >> THEN << >>
  ELSE LET e == Head(ents) IN
       (IF e.val.t \in {"undefined", "null"} THEN << >> ELSE << KV(e.key, e.val) >>)
         \o StringifyEnts(Tail(ents))

RECURSIVE StringifyTabs(_)
StringifyTabs(tabs) ==
  IF tabs = << >> THEN << >>
  ELSE << Header(Head(tabs).name) >> \o StringifyEnts(Head(tabs).ents)
         \o StringifyTabs(Tail(tabs))

\* A stringify that loses every table but [package].
StringifyOnlyPackage(doc) ==
  StringifyEnts(doc.top)
    \o StringifyTabs(SelectSeq(doc.tabs, LAMBDA tb : tb.name = "package"))

\* stringify(cargo): the top-level pairs, then one section per table.
Stringify(doc) == StringifyEnts(doc.top) \o StringifyTabs(doc.tabs)

\* JavaScript property assignment obj[key] = val on a plain object: an
\* existing key keeps its position, a new key is added at the end.
SetKey(ents, n, v) ==
  IF n \in Keys(ents)
  THEN [ents EXCEPT ![KeyIndex(ents, n)].val = v]
  ELSE Append(ents, [key |-> n, val |-> v])

\* An assignment that only updates a field that is already there.
PatchDocExistingOnly(doc, v) ==
  IF "package" \in TabNames(doc)
       /\ "version" \in Keys(doc.tabs[TabIndex(doc, "package")].ents)
  THEN [ok |-> TRUE,
        doc |-> [doc EXCEPT !.tabs[TabIndex(doc, "package")].ents = SetKey(@, "version", v)]]
  ELSE [ok |-> FALSE, doc |-> doc]

\* An assignment that is forgotten: the document stays as parsed.
PatchDocNoop(doc, v) == [ok |-> "package" \in TabNames(doc), doc |-> doc]

\* cargo.package.version = version in an ES module (strict mode).
\*   package is a table: the field is set or created;
\*   package is an array: the assignment adds a property to the array
\*     object, which stringify never serialises, so the document is the same;
\*   package is a string or a number, or is absent: TypeError.
PatchDoc(doc, v) ==
  IF "package" \in TabNames(doc)
  THEN [ok |-> TRUE,
        doc |-> [doc EXCEPT !.tabs[TabIndex(doc, "package")].ents = SetKey(@, "version", v)]]
  ELSE IF "package" \in Keys(doc.top)
            /\ doc.top[KeyIndex(doc.top, "package")].val.t = "array"
       THEN [ok |-> TRUE, doc |-> doc]
       ELSE [ok |-> FALSE, doc |-> doc]

\* The value of table.key in a parsed document, Undefined when absent;
\* table "" is the top level.
DocGet(doc, tb, n) ==
  IF tb = ""
  THEN IF n \in Keys(doc.top) THEN doc.top[KeyIndex(doc.top, n)].val ELSE Undefined
  ELSE IF tb \in TabNames(doc) /\ n \in Keys(doc.tabs[TabIndex(doc, tb)].ents)
       THEN LET ents == doc.tabs[TabIndex(doc, tb)].ents IN ents[KeyIndex(ents, n)].val
       ELSE Undefined

\* What a reader of the file sees at table.key.
TomlGet(text, tb, n) == DocGet(Parse(text).doc, tb, n)

------------------------------------------------------------------------
\* The files and the repository the script works on.

\* package.json: missing, not JSON, the JSON literal null, or an object
\* whose version field is absent (Undefined) or holds some value.
Versions == {Undefined, Null, Str(""), Str("0.1.4"), Str("0.1.7"), Num("1")}
PrimaryManifests ==
  {[st |-> "missing", version |-> Undefined],
   [st |-> "malformed", version |-> Undefined],
   [st |-> "null", version |-> Undefined]}
    \cup {[st |-> "object", version |-> v] : v \in Versions}

Deps == << Header("dependencies"), KV("serde", Str("1")) >>
TextCommented ==
  << Comment, Header("package"), KV("name", Str("prism")),
     KV("version", Str("0.1.4")), Comment >> \o Deps
TextSynced ==
  << Header("package"), KV("name", Str("prism")), KV("version", Str("0.1.7")) >> \o Deps
TextVersionFirst ==
  << KV("title", Str("x")), Header("package"), KV("version", Str("0.1.4")),
     KV("name", Str("prism")) >> \o Deps
TextNoVersion == << Header("package"), KV("name", Str("prism")) >> \o Deps
TextNoPackage == << KV("title", Str("x")) >> \o Deps
TextPackageArray == << KV("package", Arr("[prism]")) >> \o Deps
TextPackageString == << KV("package", Str("prism")) >> \o Deps
TextMalformed == << Header("package"), Junk >>
SecondaryManifests ==
  {TextCommented, TextSynced, TextVersionFirst, TextNoVersion, TextNoPackage,
   TextPackageArray, TextPackageString, TextMalformed, NoFile}

\* A tree or the index: the content of src-tauri/Cargo.toml and of one
\* other tracked path.
OtherContents == {"r0", "r1"}
EmptyTree == [cargo |-> NoFile, other |-> ""]

\* The history before the first run: n commits, HEAD last.
History(n, cargoHead, cargoOld, otherOld) ==
  [i \in 1..n |->
     IF i = n THEN [msg |-> i, tree |-> [cargo |-> cargoHead, other |-> "r0"]]
     ELSE [msg |-> i, tree |-> [cargo |-> cargoOld, other |-> otherOld]]]

HeadOf(cs) == cs[Len(cs)]
ParentTree(cs) == IF Len(cs) >= 2 THEN cs[Len(cs) - 1].tree ELSE EmptyTree

\* git add src-tauri/Cargo.toml: the index takes the file's content; every
\* other index entry stays.
GitAdd(idx, file) == [idx EXCEPT !.cargo = file]

\* git commit --amend fails outside a clean repository, without a commit
\* to amend, and when the amended commit would equal its parent (empty).
CanAmend(cs, idx, rp) == rp = "clean" /\ cs # << >> /\ idx # ParentTree(cs)

\* A commit that is added on top of HEAD instead of replacing it.
GitCommitNew(cs, idx) == Append(cs, [msg |-> HeadOf(cs).msg, tree |-> idx])

\* git commit --amend --no-edit: HEAD is replaced by a commit with the same
\* message and parent whose tree is the whole index.
GitAmend(cs, idx) == [cs EXCEPT ![Len(cs)] = [msg |-> @.msg, tree |-> idx]]

\* The stage reached by an exception that nothing catches, and by the
\* catch block's process.exit(1).
OnThrowSwallowed(stage) ==
  CASE stage = "Read" -> "ParseSecondary"
    [] stage = "ParseSecondary" -> "Patch"
    [] stage = "Patch" -> "Write"
    [] stage = "Write" -> "Stage"
    [] stage = "Stage" -> "Amend"
    [] OTHER -> "Done"

OnThrow(stage) == "Failed"

\* A patch that skips the rewrite when the version is already the same.
AfterPatchIfChanged(old, new) == IF old = new THEN "Done" ELSE "Write"

\* After the assignment the script always goes on to writeFileSync.
AfterPatch(old, new) == "Write"

\* A catch block that restores the file.
CatchBlockRollback(file, orig) == orig

\* The catch block logs and exits: the file stays as written.
CatchBlock(file, orig) == file

------------------------------------------------------------------------
VARIABLES
  primary,    \* package.json
  disk,       \* content of src-tauri/Cargo.toml
  index,      \* the git index
  commits,    \* the history, HEAD last
  repo,       \* "none" (not a repository), "clean" or "merging"
  writable,   \* whether src-tauri/Cargo.toml can be written
  pc,         \* the stage about to run, "Done" or "Failed"
  run,        \* the number of the current invocation
  version,    \* const version
  cargoToml,  \* const cargoToml
  cargo,      \* const cargo
  exitCode,   \* exit status, -1 while the process runs
  failedAt,   \* the stage that threw, "none" otherwise
  writes,     \* writeFileSync calls that succeeded in this run
  amends,     \* amends that succeeded in this run
  pre         \* the files and the repository when this run started

vars == << primary, disk, index, commits, repo, writable, pc, run, version,
           cargoToml, cargo, exitCode, failedAt, writes, amends, pre >>

env == << primary, repo, writable, run, pre >>

Snapshot(p, d, i, c) == [primary |-> p, disk |-> d, index |-> i, commits |-> c]

Init ==
  /\ primary \in PrimaryManifests
  /\ disk \in SecondaryManifests
  /\ repo \in {"none", "clean", "merging"}
  /\ writable \in BOOLEAN
  /\ \E n \in 0..MaxCommits, cargoOld \in {disk, TextSynced}, otherOld \in OtherContents :
       /\ repo = "none" => n = 0
       /\ n < 2 => (cargoOld = disk /\ otherOld = "r0")
       /\ commits = History(n, disk, cargoOld, otherOld)
  /\ index \in {[cargo |-> disk, other |-> o] : o \in OtherContents}
  /\ repo = "none" => index.other = "r0"
  /\ pc = "Read"
  /\ run = 1
  /\ version = Undefined
  /\ cargoToml = << >>
  /\ cargo = EmptyDoc
  /\ exitCode = -1
  /\ failedAt = "none"
  /\ writes = 0
  /\ amends = 0
  /\ pre = Snapshot(primary, disk, index, commits)

\* An exception ends the process with status 1.
Throw(stage) ==
  /\ pc' = OnThrow(stage)
  /\ failedAt' = stage
  /\ exitCode' = 1

\* const packageJson = JSON.parse(readFileSync(packageJsonPath, 'utf-8'))
\* const version = packageJson.version
Read ==
  /\ pc = "Read"
  /\ IF primary.st = "object"
     THEN /\ version' = primary.version
          /\ pc' = "ParseSecondary"
          /\ UNCHANGED << failedAt, exitCode >>
     ELSE /\ Throw("Read")
          /\ UNCHANGED version
  /\ UNCHANGED << env, disk, index, commits, cargoToml, cargo, writes, amends >>

\* const cargoToml = readFileSync(cargoTomlPath, 'utf-8')
\* const cargo = parse(cargoToml)
ParseSecondary ==
  /\ pc = "ParseSecondary"
  /\ IF disk # NoFile /\ Parse(disk).ok
     THEN /\ cargoToml' = disk
          /\ cargo' = Parse(disk).doc
          /\ pc' = "Patch"
          /\ UNCHANGED << failedAt, exitCode >>
     ELSE /\ Throw("ParseSecondary")
          /\ cargoToml' = IF disk # NoFile THEN disk ELSE cargoToml
          /\ UNCHANGED cargo
  /\ UNCHANGED << env, disk, index, commits, version, writes, amends >>

\* cargo.package.version = version
Patch ==
  /\ pc = "Patch"
  /\ LET r == PatchDoc(cargo, version)
         next == AfterPatch(DocGet(cargo, "package", "version"), version)
     IN IF r.ok
        THEN /\ cargo' = r.doc
             /\ pc' = next
             /\ exitCode' = IF next = "Done" THEN 0 ELSE exitCode
             /\ UNCHANGED failedAt
        ELSE /\ Throw("Patch")
             /\ UNCHANGED cargo
  /\ UNCHANGED << env, disk, index, commits, version, cargoToml, writes, amends >>

\* writeFileSync(cargoTomlPath, stringify(cargo), 'utf-8')
Write ==
  /\ pc = "Write"
  /\ IF writable
     THEN /\ disk' = Stringify(cargo)
          /\ writes' = writes + 1
          /\ pc' = "Stage"
          /\ UNCHANGED << failedAt, exitCode >>
     ELSE /\ Throw("Write")
          /\ UNCHANGED << disk, writes >>
  /\ UNCHANGED << env, index, commits, version, cargoToml, cargo, amends >>

\* execSync('git add src-tauri/Cargo.toml', { cwd: rootDir })
Stage ==
  /\ pc = "Stage"
  /\ IF repo # "none"
     THEN /\ index' = GitAdd(index, disk)
          /\ pc' = "Amend"
          /\ UNCHANGED << failedAt, exitCode, disk >>
     ELSE /\ Throw("Stage")
          /\ disk' = CatchBlock(disk, pre.disk)
          /\ UNCHANGED index
  /\ UNCHANGED << env, commits, version, cargoToml, cargo, writes, amends >>

\* execSync('git commit --amend --no-edit --no-verify', { cwd: rootDir })
Amend ==
  /\ pc = "Amend"
  /\ IF CanAmend(commits, index, repo)
     THEN /\ commits' = GitAmend(commits, index)
          /\ amends' = amends + 1
          /\ pc' = "Done"
          /\ exitCode' = 0
          /\ UNCHANGED << failedAt, disk >>
     ELSE /\ Throw("Amend")
          /\ disk' = CatchBlock(disk, pre.disk)
          /\ UNCHANGED << commits, amends >>
  /\ UNCHANGED << primary, repo, writable, run, pre, index, version, cargoToml, cargo, writes >>

\* The script is invoked again after a successful run, package.json and
\* the repository as the previous run left them.
Rerun ==
  /\ pc = "Done"
  /\ run < MaxRuns
  /\ run' = run + 1
  /\ pc' = "Read"
  /\ version' = Undefined
  /\ cargoToml' = << >>
  /\ cargo' = EmptyDoc
  /\ exitCode' = -1
  /\ failedAt' = "none"
  /\ writes' = 0
  /\ amends' = 0
  /\ pre' = Snapshot(primary, disk, index, commits)
  /\ UNCHANGED << primary, disk, index, commits, repo, writable >>

Next == Read \/ ParseSecondary \/ Patch \/ Write \/ Stage \/ Amend \/ Rerun

Spec == Init /\ [][Next]_vars

------------------------------------------------------------------------
\* Vocabulary of the properties.

HasPackageTable(text) == Parse(text).ok /\ "package" \in TabNames(Parse(text).doc)
NoPackageTable(text) ==
  text # NoFile /\ Parse(text).ok /\ "package" \notin TabNames(Parse(text).doc)
PackageWithoutVersion(text) ==
  HasPackageTable(text) /\ "version" \notin Keys(Parse(text).doc.tabs[TabIndex(Parse(text).doc, "package")].ents)
PrimaryUsable == primary.st = "object" /\ ValidVersion(primary.version)
ReachedWrite ==
  pc \in {"Write", "Stage", "Amend", "Done"} \/ failedAt \in {"Write", "Stage", "Amend"}
Untouched == disk = pre.disk /\ index = pre.index /\ commits = pre.commits

\* Every (table, key, value) of a file except package.version, and the
\* names of its tables.
OtherFields(text) ==
  LET d == Parse(text).doc IN
  [tables |-> TabNames(d),
   fields |-> {<< "", d.top[i].key, d.top[i].val >> : i \in 1..Len(d.top)}
              \cup UNION {{<< d.tabs[j].name, d.tabs[j].ents[i].key, d.tabs[j].ents[i].val >> :
                              i \in {k \in 1..Len(d.tabs[j].ents) :
                                       ~(d.tabs[j].name = "package" /\ d.tabs[j].ents[k].key = "version")}} :
                          j \in 1..Len(d.tabs)}]

\* C1: when package.json holds a non-empty string version V and Cargo.toml
\* has a [package] table, a run that ends Done (exit 0) leaves Cargo.toml on
\* disk with package.version equal to V.
C1_VersionSynced ==
  (pc = "Done" /\ PrimaryUsable /\ HasPackageTable(pre.disk))
    => (exitCode = 0 /\ TomlGet(disk, "package", "version") = primary.version)

C1_Witness ==
  /\ pc = "Done" /\ PrimaryUsable /\ HasPackageTable(pre.disk)
  /\ TomlGet(pre.disk, "package", "version") = Str("0.1.4")
  /\ TomlGet(disk, "package", "version") = Str("0.1.7")

\* C2: when package.json is missing, unparseable or without a non-empty
\* string version, the run never reaches Write, Stage or Amend and the file,
\* the index and the history are as they were (stated for a Cargo.toml
\* with a [package] table, so that nothing else is at fault).
C2_InvalidPrimaryFailsEarly ==
  (~PrimaryUsable /\ HasPackageTable(pre.disk)) => (~ReachedWrite /\ Untouched)

\* C3: when Cargo.toml has no [package] table the run fails at Patch, the
\* file is unchanged and nothing is staged or amended.
C3_NoPackageTableFails ==
  (PrimaryUsable /\ NoPackageTable(pre.disk))
    => (~ReachedWrite /\ (pc = "Failed" => failedAt = "Patch") /\ Untouched)

\* C4: when git add or git commit --amend fails (always so without a
\* commit), the run ends Failed with status 1 after the one write, the file
\* on disk is still what was written (it holds the new version) and the
\* history is as before.
C4_NoRollback ==
  /\ (pc = "Failed" /\ failedAt \in {"Stage", "Amend"})
       => /\ exitCode = 1
          /\ writes = 1
          /\ disk = Stringify(cargo)
          /\ commits = pre.commits
          /\ amends = 0
          /\ (PrimaryUsable /\ HasPackageTable(pre.disk))
               => TomlGet(disk, "package", "version") = primary.version
  /\ pre.commits = << >> => pc # "Done"

C4_Witness ==
  /\ pc = "Failed" /\ failedAt = "Amend" /\ commits = << >>
  /\ disk # pre.disk
  /\ TomlGet(disk, "package", "version") = Str("0.1.7")

\* C5: the stages run only in the order Read, ParseSecondary, Patch, Write,
\* Stage, Amend, each at most once per run; a failure goes straight to
\* Failed, nothing happens after it, the side effects of the later stages
\* never occurred, and the exit status is 0 exactly when every stage
\* succeeded and 1 exactly when one failed.
C5_Edges ==
  {<< "Read", "ParseSecondary" >>, << "ParseSecondary", "Patch" >>,
   << "Patch", "Write" >>, << "Write", "Stage" >>, << "Stage", "Amend" >>,
   << "Amend", "Done" >>, << "Done", "Read" >>}
    \cup {<< st, "Failed" >> : st \in {"Read", "ParseSecondary", "Patch", "Write", "Stage", "Amend"}}

C5_StateInv ==
  /\ exitCode = 0 <=> pc = "Done"
  /\ exitCode = 1 <=> pc = "Failed"
  /\ failedAt # "none" <=> pc = "Failed"
  /\ failedAt \in {"Read", "ParseSecondary", "Patch", "Write"} => (Untouched /\ writes = 0)
  /\ failedAt = "Stage" => (index = pre.index /\ commits = pre.commits)
  /\ failedAt = "Amend" => commits = pre.commits
  /\ pc \in {"Read", "ParseSecondary", "Patch", "Write"} => (Untouched /\ writes = 0)
  /\ pc \in {"Stage", "Amend"} => (writes = 1 /\ amends = 0 /\ commits = pre.commits)
  /\ pc = "Done" => (writes = 1 /\ amends = 1)

C5_Step == (<< pc, pc' >>) \in C5_Edges

C5_Pipeline == []C5_StateInv /\ [][C5_Step]_vars

C5_Witness == pc = "Failed" /\ failedAt = "Write" /\ version # Undefined

\* C6: a successful run adds no commit: the history has as many commits as
\* before, the earlier ones are the same, HEAD carries the message it had,
\* and HEAD's tree holds Cargo.toml exactly as it is on disk.
C6_AmendInPlace ==
  pc = "Done"
    => /\ commits # << >>
       /\ Len(commits) = Len(pre.commits)
       /\ \A i \in 1..(Len(commits) - 1) : commits[i] = pre.commits[i]
       /\ HeadOf(commits).msg = HeadOf(pre.commits).msg
       /\ HeadOf(commits).tree.cargo = disk
       /\ index.cargo = disk

C6_Witness ==
  /\ pc = "Done" /\ Len(commits) >= 2
  /\ HeadOf(commits).tree.cargo # HeadOf(pre.commits).tree.cargo

\* C7: a run writes Cargo.toml at most once, never changes package.json,
\* and every table and field of Cargo.toml other than package.version reads
\* after the run as it read before.
C7_OnlyVersionChanges ==
  /\ writes <= 1
  /\ primary = pre.primary
  /\ \/ disk = pre.disk
     \/ /\ Parse(pre.disk).ok
        /\ Parse(disk).ok
        /\ OtherFields(disk) = OtherFields(pre.disk)

C7_Witness ==
  /\ writes = 1 /\ pre.disk = TextVersionFirst /\ disk # pre.disk
  /\ TomlGet(disk, "dependencies", "serde") = Str("1")
  /\ TomlGet(disk, "", "title") = Str("x")

\* C8: there is no short-circuit: a run that ends Done on a Cargo.toml whose
\* package.version already was the version of package.json has written,
\* staged and amended; and a second run right after a successful one does
\* not fail and leaves the file and the number of commits as the first left
\* them.
C8_Repeatable ==
  /\ (pc = "Done" /\ HasPackageTable(pre.disk)
        /\ TomlGet(pre.disk, "package", "version") = version)
       => (writes = 1 /\ amends = 1 /\ exitCode = 0
             /\ index.cargo = disk /\ HeadOf(commits).tree.cargo = disk)
  /\ run >= 2
       => /\ pc # "Failed"
          /\ disk = pre.disk
          /\ Len(commits) = Len(pre.commits)

C8_Witness ==
  /\ pc = "Done" /\ run = 2 /\ writes = 1 /\ amends = 1
  /\ ValidVersion(version)
  /\ TomlGet(pre.disk, "package", "version") = version

\* C9 as stated: when [package] exists without a version field (and
\* package.json is usable) the run fails before writing and the file is
\* unchanged.
C9_MissingFieldFails ==
  (PrimaryUsable /\ PackageWithoutVersion(pre.disk))
    => (~ReachedWrite /\ disk = pre.disk)

\* C9 amended: when [package] exists without a version field, Patch does
\* not fail; once written, the file holds package.version equal to the
\* version read from package.json (no field when that is null or absent).
C9_FieldCreated ==
  PackageWithoutVersion(pre.disk)
    => /\ failedAt # "Patch"
       /\ writes = 1
            => TomlGet(disk, "package", "version")
                 = (IF version.t \in {"undefined", "null"} THEN Undefined ELSE version)

C9_Witness ==
  /\ PackageWithoutVersion(pre.disk) /\ writes = 1
  /\ TomlGet(disk, "package", "version") = Str("0.1.7")

\* C10: after a successful run every path other than Cargo.toml has in
\* HEAD's tree the content it had there before the run (stated for usable
\* manifests, so that nothing else is at fault).
C10_OnlyCargoFolded ==
  (pc = "Done" /\ PrimaryUsable /\ HasPackageTable(pre.disk))
    => HeadOf(commits).tree.other = HeadOf(pre.commits).tree.other

====
